---------------------------- MODULE Spec2Model ----------------------------
(***************************************************************************)
(* photo-manager: the duplicate smart-select rules (utils/smartSelect.ts)  *)
(* and the photo store (store/photoStore.ts) with its file operations and  *)
(* undo stack, over an abstract file system.                               *)
(***************************************************************************)
EXTENDS Integers, Sequences, FiniteSets, TLC

(***************************************************************************)
(* Paths are sequences of one-character strings, so that the substring and *)
(* regular-expression tests of smartSelect.ts are computed on characters.  *)
(***************************************************************************)

\* "/Desktop/a.jpg"
PathDesktopA ==
  <<"/","D","e","s","k","t","o","p","/","a",".","j","p","g">>

\* "/Desktop/random.jpg"
PathDesktop ==
  <<"/","D","e","s","k","t","o","p","/","r","a","n","d","o","m",".","j","p",
    "g">>

\* "/Desktop/2022-07-04.jpg"
PathDesktopDate ==
  <<"/","D","e","s","k","t","o","p","/","2","0","2","2","-","0","7","-","0",
    "4",".","j","p","g">>

\* "/OldDropbox/Camera Uploads/x.jpg"
PathOldDropbox ==
  <<"/","O","l","d","D","r","o","p","b","o","x","/","C","a","m","e","r","a",
    " ","U","p","l","o","a","d","s","/","x",".","j","p","g">>

\* "/Dropbox/Camera Uploads/DSC001.JPG"
PathCamera ==
  <<"/","D","r","o","p","b","o","x","/","C","a","m","e","r","a"," ","U","p",
    "l","o","a","d","s","/","D","S","C","0","0","1",".","J","P","G">>

\* "/Dropbox/Camera Uploads/2021/IMG_1.jpg"
PathYearImg ==
  <<"/","D","r","o","p","b","o","x","/","C","a","m","e","r","a"," ","U","p",
    "l","o","a","d","s","/","2","0","2","1","/","I","M","G","_","1",".","j",
    "p","g">>

\* "/Bak/Camera Uploads/2020/2020-01-01.jpg"
PathBakYear ==
  <<"/","B","a","k","/","C","a","m","e","r","a"," ","U","p","l","o","a","d",
    "s","/","2","0","2","0","/","2","0","2","0","-","0","1","-","0","1",".",
    "j","p","g">>

\* "/Dropbox/Camera Uploads/2022/2022-07-04 10.00.00.jpg"
PathYearDate ==
  <<"/","D","r","o","p","b","o","x","/","C","a","m","e","r","a"," ","U","p",
    "l","o","a","d","s","/","2","0","2","2","/","2","0","2","2","-","0","7",
    "-","0","4"," ","1","0",".","0","0",".","0","0",".","j","p","g">>


\* The literal patterns of isCameraUploadsPath and isYearFolderPath.

\* "/Dropbox/Camera Uploads/"
PatCameraUploadsFull ==
  <<"/","D","r","o","p","b","o","x","/","C","a","m","e","r","a"," ","U","p",
    "l","o","a","d","s","/">>

\* "Dropbox/Camera Uploads/"
PatCameraUploadsShort ==
  <<"D","r","o","p","b","o","x","/","C","a","m","e","r","a"," ","U","p","l",
    "o","a","d","s","/">>

\* "/Camera Uploads/"
PatCameraUploadsDir ==
  <<"/","C","a","m","e","r","a"," ","U","p","l","o","a","d","s","/">>

(***************************************************************************)
(* Bounds of the smart-select inputs.                                      *)
(***************************************************************************)
MaxGroups == 2
MaxGroupSize == 4
MaxSafetyPhotos == 4

(***************************************************************************)
(* The photos the inputs are drawn from: distinct ids, distinct paths, in  *)
(* order of path length (the order useDuplicateGroups gives a group).      *)
(***************************************************************************)
PhotoPool ==
  << [id |-> "p1", path |-> PathDesktopA],
     [id |-> "p2", path |-> PathDesktop],
     [id |-> "p3", path |-> PathDesktopDate],
     [id |-> "p4", path |-> PathOldDropbox],
     [id |-> "p5", path |-> PathCamera],
     [id |-> "p6", path |-> PathYearImg],
     [id |-> "p7", path |-> PathBakYear],
     [id |-> "p8", path |-> PathYearDate] >>

PoolIds == {PhotoPool[i].id : i \in 1..Len(PhotoPool)}

NoPhoto == [id |-> "none", path |-> <<>>]

VARIABLES
  groups,        \* DuplicateGroup[] handed to the smart-select functions
  selection,     \* selectedIds handed to getFullySelectedGroups
  pcSmart,       \* "input", or the function that was applied last
  photosToDelete,\* per group: the result of applySmartRules
  toSelect,      \* result of getSmartSelections
  count          \* result of getFullySelectedGroups

smartVars == <<groups, selection, pcSmart, photosToDelete, toSelect, count>>

\* the photo store, the backend and the handler calls in flight
VARIABLES
  fs,               \* backend: path -> the file stored there, or NoFile
  savedConfig,      \* backend: the directories of config.json
  registered,       \* event system: the scan-progress listeners subscribed
  configLoaded,     \* App has called loadConfig
  directories,      \* store: DirectoryConfig[]
  photos,           \* store: PhotoFile[]
  loading,          \* store
  scanProgress,     \* store: ScanProgress | null
  selectedIds,      \* store: Set<string>
  undoStack,        \* store: UndoOperation[]
  unlistenProgress, \* module variable of the store: UnlistenFn | null
  tasks,            \* the handler calls suspended at an await
  calls,            \* number of handler calls made so far
  overlaps,         \* of them, made while another call was in flight
  clock,            \* Date.now()
  response,         \* the backend command answered in the last step
  lastMove,         \* history: the last successful move_files and the file
                    \* system before it
  lastScan          \* history: the slot of the scanDirectories call made last
                    \* and whether its photos have replaced the photo list

storeVars ==
  <<fs, savedConfig, registered, configLoaded, directories, photos, loading,
    scanProgress, selectedIds, undoStack, unlistenProgress, tasks, calls,
    overlaps, clock, response, lastMove, lastScan>>

\* what the hooks of useSortedPhotos.ts read besides photos and loading, and
\* what they return
VARIABLES
  filterMode,       \* store: FilterMode
  sortOrder,        \* store: SortOrder
  sortedPhotos,     \* result of useSortedPhotos
  duplicateGroups,  \* result of useDuplicateGroups
  pcHooks           \* "input", or "rendered" once the hooks have run

hookVars == <<filterMode, sortOrder, sortedPhotos, duplicateGroups, pcHooks>>

vars == <<smartVars, storeVars, hookVars>>

-----------------------------------------------------------------------------
(***************************************************************************)
(* utils/smartSelect.ts                                                    *)
(***************************************************************************)

\* String.prototype.includes
Includes(s, sub) ==
  \E i \in 0..(Len(s) - Len(sub)) : SubSeq(s, i + 1, i + Len(sub)) = sub

\* the regular-expression class \d
IsDigit(c) == c \in {"0","1","2","3","4","5","6","7","8","9"}

isCameraUploadsPath(path) ==
  Includes(path, PatCameraUploadsFull) \/ Includes(path, PatCameraUploadsShort)

\* the year-folder test without the \d{4}\/ part
isYearFolderPathAnySubfolder(path) == Includes(path, PatCameraUploadsDir)

\* /\/Camera Uploads\/\d{4}\//.test(path)
isYearFolderPath(path) ==
  \E i \in 0..(Len(path) - (Len(PatCameraUploadsDir) + 5)) :
     LET n == Len(PatCameraUploadsDir) IN
       /\ SubSeq(path, i + 1, i + n) = PatCameraUploadsDir
       /\ \A k \in 1..4 : IsDigit(path[i + n + k])
       /\ path[i + n + 5] = "/"

\* path.split('/').pop() || ''
RECURSIVE FileNameFrom(_, _)
FileNameFrom(path, i) ==
  IF i = 0 \/ path[i] = "/" THEN SubSeq(path, i + 1, Len(path))
  ELSE FileNameFrom(path, i - 1)

FileName(path) == FileNameFrom(path, Len(path))

\* /^\d{4}-\d{2}-\d{2}/.test(filename)
isDateNamedFile(path) ==
  LET filename == FileName(path) IN
    /\ Len(filename) >= 10
    /\ \A k \in {1, 2, 3, 4, 6, 7, 9, 10} : IsDigit(filename[k])
    /\ filename[5] = "-"
    /\ filename[8] = "-"

\* Array.prototype.filter, keeping the order
Filter(s, Test(_)) == SelectSeq(s, Test)

\* [group.original, ...group.duplicates]
AllPhotos(group) == <<group.original>> \o group.duplicates

SeqIds(s) == {s[i].id : i \in 1..Len(s)}

\* the state of the rule loop: the surviving candidates and the photos
\* eliminated so far
RuleStart(members) == [candidates |-> members, toDelete |-> <<>>]

\* Rule 1 without "candidates = inYearFolder"
RuleYearFolderNotNarrowing(st) ==
  LET inYearFolder ==
        Filter(st.candidates, LAMBDA p : isYearFolderPath(p.path))
      notInYearFolder ==
        Filter(st.candidates, LAMBDA p : ~isYearFolderPath(p.path))
  IN  IF Len(inYearFolder) > 0 /\ Len(notInYearFolder) > 0
      THEN [candidates |-> st.candidates,
            toDelete |-> st.toDelete \o notInYearFolder]
      ELSE st

\* Rule 1: Camera Uploads year folders are highest priority
RuleYearFolder(st) ==
  LET inYearFolder ==
        Filter(st.candidates, LAMBDA p : isYearFolderPath(p.path))
      notInYearFolder ==
        Filter(st.candidates, LAMBDA p : ~isYearFolderPath(p.path))
  IN  IF Len(inYearFolder) > 0 /\ Len(notInYearFolder) > 0
      THEN [candidates |-> inYearFolder,
            toDelete |-> st.toDelete \o notInYearFolder]
      ELSE st

\* Rule 2: prefer date-named files over camera-generated names
RuleDateNamed(st) ==
  IF Len(st.candidates) > 1
  THEN LET dateNamed ==
             Filter(st.candidates, LAMBDA p : isDateNamedFile(p.path))
           notDateNamed ==
             Filter(st.candidates, LAMBDA p : ~isDateNamedFile(p.path))
       IN  IF Len(dateNamed) > 0 /\ Len(notDateNamed) > 0
           THEN [candidates |-> dateNamed,
                 toDelete |-> st.toDelete \o notDateNamed]
           ELSE st
  ELSE st

\* Rule 3 without the test that some candidate is in Camera Uploads
RuleCameraUploadsNoSplitTest(st) ==
  IF Len(st.candidates) > 1
  THEN [candidates |-> st.candidates,
        toDelete |-> st.toDelete \o
          Filter(st.candidates, LAMBDA p : ~isCameraUploadsPath(p.path))]
  ELSE st

\* Rule 3: prefer Camera Uploads over non-Camera Uploads (the last rule
\* does not narrow the candidates)
RuleCameraUploads(st) ==
  IF Len(st.candidates) > 1
  THEN LET cameraUploads ==
             Filter(st.candidates, LAMBDA p : isCameraUploadsPath(p.path))
           nonCameraUploads ==
             Filter(st.candidates, LAMBDA p : ~isCameraUploadsPath(p.path))
       IN  IF Len(cameraUploads) > 0 /\ Len(nonCameraUploads) > 0
           THEN [candidates |-> st.candidates,
                 toDelete |-> st.toDelete \o nonCameraUploads]
           ELSE st
  ELSE st

applySmartRules(members) ==
  IF Len(members) <= 1 THEN <<>>
  ELSE RuleCameraUploads(RuleDateNamed(RuleYearFolder(RuleStart(members)))).toDelete

\* the loop of getSmartSelections, one applySmartRules call per group;
\* acc is toSelect
RECURSIVE SmartSelectionsLoop(_, _)
SmartSelectionsLoop(gs, acc) ==
  IF gs = <<>> THEN acc
  ELSE SmartSelectionsLoop(Tail(gs),
         acc \cup SeqIds(applySmartRules(AllPhotos(Head(gs)))))

getSmartSelections(gs) == SmartSelectionsLoop(gs, {})

\* the value of photosToDelete in each iteration of that loop
PhotosToDeleteOf(gs) ==
  [i \in 1..Len(gs) |-> applySmartRules(AllPhotos(gs[i]))]

\* getFullySelectedGroups with some() in place of every()
RECURSIVE getFullySelectedGroupsSome(_, _)
getFullySelectedGroupsSome(gs, selected) ==
  IF gs = <<>> THEN 0
  ELSE LET allPhotos == AllPhotos(Head(gs))
           someSelected ==
             \E i \in 1..Len(allPhotos) : allPhotos[i].id \in selected
       IN  (IF someSelected THEN 1 ELSE 0)
             + getFullySelectedGroupsSome(Tail(gs), selected)

RECURSIVE getFullySelectedGroups(_, _)
getFullySelectedGroups(gs, selected) ==
  IF gs = <<>> THEN 0
  ELSE LET allPhotos == AllPhotos(Head(gs))
           allSelected ==
             \A i \in 1..Len(allPhotos) : allPhotos[i].id \in selected
       IN  (IF allSelected THEN 1 ELSE 0)
             + getFullySelectedGroups(Tail(gs), selected)

-----------------------------------------------------------------------------
(***************************************************************************)
(* Inputs of the smart-select functions.                                   *)
(***************************************************************************)

\* the pool photos with index in S, in pool order
RECURSIVE PickFrom(_, _)
PickFrom(S, i) ==
  IF i > Len(PhotoPool) THEN <<>>
  ELSE (IF i \in S THEN <<PhotoPool[i]>> ELSE <<>>) \o PickFrom(S, i + 1)

\* DuplicateGroup of useSortedPhotos.ts: the header and the other members
MkGroup(members) ==
  [originalId |-> Head(members).id,
   original   |-> Head(members),
   duplicates |-> Tail(members)]

MemberSets(n) ==
  {S \in SUBSET (1..n) : S # {} /\ Cardinality(S) <= MaxGroupSize}

RECURSIVE SetCode(_)
SetCode(S) ==
  IF S = {} THEN 0
  ELSE LET m == CHOOSE x \in S : \A y \in S : y <= x
       IN  2^m + SetCode(S \ {m})

\* lists of at most MaxGroups different groups over the first n pool photos
GroupLists(n) ==
  UNION { { [i \in 1..k |-> MkGroup(PickFrom(f[i], 1))] :
              f \in {h \in [1..k -> MemberSets(n)] :
                       \A i \in 1..k : \A j \in 1..k :
                          i < j => SetCode(h[i]) < SetCode(h[j])} }
          : k \in 0..MaxGroups }

\* lists of exactly k groups with no photo in two groups, drawn from the
\* pool photos with index in avail, in order of the groups' first member
SetMin(S) == CHOOSE x \in S : \A y \in S : x <= y

RECURSIVE DisjointLists(_, _)
DisjointLists(k, avail) ==
  IF k = 0 THEN {<<>>}
  ELSE UNION { { <<MkGroup(PickFrom(S, 1))>> \o rest :
                   rest \in DisjointLists(k - 1,
                              {x \in avail \ S : x > SetMin(S)}) }
               : S \in {T \in SUBSET avail :
                          T # {} /\ Cardinality(T) <= MaxGroupSize} }

SmartInputs ==
  UNION {DisjointLists(k, 1..Len(PhotoPool)) : k \in 0..MaxGroups}
SafetyInputs == GroupLists(MaxSafetyPhotos)
SafetyIds == {PhotoPool[i].id : i \in 1..MaxSafetyPhotos}

InitSmartVars(gs, sel) ==
  /\ groups = gs
  /\ selection = sel
  /\ pcSmart = "input"
  /\ photosToDelete = <<>>
  /\ toSelect = {}
  /\ count = 0

\* handleSmartSelect computes getSmartSelections over the displayed groups
SmartSelect ==
  /\ pcSmart = "input"
  /\ pcSmart' = "getSmartSelections"
  /\ photosToDelete' = PhotosToDeleteOf(groups)
  /\ toSelect' = getSmartSelections(groups)
  /\ UNCHANGED <<groups, selection, count>>
  /\ UNCHANGED <<storeVars, hookVars>>

\* the render computes fullySelectedCount
FullySelected ==
  /\ pcSmart = "input"
  /\ pcSmart' = "getFullySelectedGroups"
  /\ count' = getFullySelectedGroups(groups, selection)
  /\ UNCHANGED <<groups, selection, photosToDelete, toSelect>>
  /\ UNCHANGED <<storeVars, hookVars>>

-----------------------------------------------------------------------------
(***************************************************************************)
(* The photo store (zustand) and the Tauri backend commands it invokes.    *)
(* The backend (src-tauri) is modelled from its specification: an abstract *)
(* file system of two folders holding files "x", "x (2)", ...              *)
(***************************************************************************)

\* Bounds of the store model.
MaxSuffix == 2   \* file names: "x" and "x (n)" for n in 2..MaxSuffix
MaxTasks == 2    \* handler calls in flight at the same time
MaxCalls == 3    \* handler calls made in a behaviour
MaxOverlaps == 1 \* of them, calls made while another call is in flight

Dirs == {"/d", "/s"}
Paths == [dir : Dirs, n : 1..MaxSuffix]
Fids == {"f1", "f2"}
NoFile == "none"
NoId == [dir |-> "none", n |-> 0]

Slots == 1..MaxTasks

-----------------------------------------------------------------------------
(***************************************************************************)
(* Backend commands                                                        *)
(***************************************************************************)

SeqOf(s) == {s[i] : i \in 1..Len(s)}

Exists(f, p) == f[p] # NoFile

MoveFile(f, from, to) == [f EXCEPT ![from] = NoFile, ![to] = f[from]]

\* the name a file named n gets in folder dest: its own name when that is
\* free, else "x (k)" for the first free k from 2; 0 when none is free
TargetName(f, dest, n) ==
  IF ~Exists(f, [dir |-> dest, n |-> n]) THEN n
  ELSE LET free == {k \in 2..MaxSuffix : ~Exists(f, [dir |-> dest, n |-> k])}
       IN  IF free = {} THEN 0
           ELSE CHOOSE k \in free : \A j \in free : k <= j

\* move_files(files, destination): st = [fs, ops, failed]; a file that is
\* not there is skipped, a failed operation does not stop the batch; the
\* operation at index failAt fails with an I/O error
RECURSIVE MoveFilesFrom(_, _, _, _, _)
MoveFilesFrom(st, files, dest, i, failAt) ==
  IF i > Len(files) THEN st
  ELSE LET from == files[i]
           k    == TargetName(st.fs, dest, from.n)
           to   == [dir |-> dest, n |-> k]
           next ==
             IF ~Exists(st.fs, from) THEN st
             ELSE IF i = failAt \/ k = 0 THEN [st EXCEPT !.failed = TRUE]
             ELSE [fs     |-> MoveFile(st.fs, from, to),
                   ops    |-> Append(st.ops, [from |-> from, to |-> to]),
                   failed |-> st.failed]
       IN  MoveFilesFrom(next, files, dest, i + 1, failAt)

move_files(f, files, dest, failAt) ==
  MoveFilesFrom([fs |-> f, ops |-> <<>>, failed |-> FALSE],
                files, dest, 1, failAt)

\* move_files_batch(operations): the operations in the order given; a
\* source that is not there is skipped, an occupied target fails the
\* operation and the batch goes on
RECURSIVE MoveBatchFrom(_, _, _, _)
MoveBatchFrom(st, ops, i, failAt) ==
  IF i > Len(ops) THEN st
  ELSE LET op   == ops[i]
           next ==
             IF ~Exists(st.fs, op.from) THEN st
             ELSE IF i = failAt \/ Exists(st.fs, op.to)
                  THEN [st EXCEPT !.failed = TRUE]
             ELSE [st EXCEPT !.fs = MoveFile(st.fs, op.from, op.to)]
       IN  MoveBatchFrom(next, ops, i + 1, failAt)

move_files_batch(f, ops, failAt) ==
  MoveBatchFrom([fs |-> f, failed |-> FALSE], ops, 1, failAt)

\* trash_files(files)
trash_files(f, files) ==
  [p \in Paths |-> IF p \in SeqOf(files) THEN NoFile ELSE f[p]]

\* rename_file(path, newName): fails when the file is not there or the new
\* name is taken
RenameTarget(path, newName) == [dir |-> path.dir, n |-> newName]

rename_file_ok(f, path, newName) ==
  Exists(f, path) /\ ~Exists(f, RenameTarget(path, newName))

rename_file(f, path, newName) == MoveFile(f, path, RenameTarget(path, newName))

\* keeper selection: shortest path, ties broken lexicographically
\* ("/d/x" and "/s/x" have 4 characters, "/d/x (n)" has 8)
PathLen(p) == IF p.n = 1 THEN 4 ELSE 8

PathBefore(p, q) ==
  \/ PathLen(p) < PathLen(q)
  \/ /\ PathLen(p) = PathLen(q)
     /\ \/ p.dir = "/d" /\ q.dir = "/s"
        \/ p.dir = q.dir /\ p.n < q.n

\* the files of this model all have the same content
ScannedPaths(f, dirs) == {p \in Paths : Exists(f, p) /\ p.dir \in SeqOf(dirs)}

Keeper(S) == CHOOSE p \in S : \A q \in S \ {p} : PathBefore(p, q)

\* the photo of a scanned path: the id is derived from the path
PhotoOf(p, S) ==
  [id          |-> p,
   path        |-> p,
   isDuplicate |-> p # Keeper(S),
   duplicateOf |-> IF p # Keeper(S) THEN Keeper(S) ELSE NoId]

\* the files found under one directory, by name
RECURSIVE FilesUnder(_, _, _)
FilesUnder(f, dir, n) ==
  IF n > MaxSuffix THEN <<>>
  ELSE (IF Exists(f, [dir |-> dir, n |-> n])
        THEN <<[dir |-> dir, n |-> n]>> ELSE <<>>)
       \o FilesUnder(f, dir, n + 1)

RECURSIVE Walk(_, _)
Walk(f, dirs) ==
  IF dirs = <<>> THEN <<>>
  ELSE FilesUnder(f, Head(dirs), 1) \o Walk(f, Tail(dirs))

\* scan_directories(directories): the directories are walked in the order
\* given
scan_directories(f, dirs) ==
  LET found == Walk(f, dirs)
  IN  [i \in 1..Len(found) |-> PhotoOf(found[i], ScannedPaths(f, dirs))]

-----------------------------------------------------------------------------
(***************************************************************************)
(* store/photoStore.ts                                                     *)
(***************************************************************************)

NoEntry == [type |-> "none", timestamp |-> 0, operations |-> <<>>]
NoProgress == [phase |-> "null", current |-> 0, total |-> 0]
NoResponse == [cmd |-> "none", ok |-> FALSE, value |-> <<>>]
NoMove == [timestamp |-> 0, operations |-> <<>>, before |-> <<>>]
NoScan == [slot |-> 0, shown |-> FALSE]

Idle ==
  [op |-> "idle", pc |-> "idle", files |-> <<>>, dest |-> "", newName |-> 0,
   lastOp |-> NoEntry, operations |-> <<>>, enabledDirs |-> <<>>,
   received |-> <<>>]

DirName(path) == IF path = "/d" THEN "d" ELSE "s"

DirectoryConfig(path) ==
  [path |-> path, enabled |-> TRUE, name |-> DirName(path)]

\* the config.json the application starts with
InitialConfig == <<DirectoryConfig("/s"), DirectoryConfig("/d")>>

\* the files the application starts with: two copies of one photo
InitialFiles ==
  [p \in Paths |-> IF p = [dir |-> "/s", n |-> 1] THEN "f1"
                   ELSE IF p = [dir |-> "/d", n |-> 1] THEN "f2"
                   ELSE NoFile]

InitStore ==
  /\ fs = InitialFiles
  /\ savedConfig = InitialConfig
  /\ registered = 0
  /\ configLoaded = FALSE
  /\ directories = <<>>
  /\ photos = <<>>
  /\ loading = FALSE
  /\ scanProgress = NoProgress
  /\ selectedIds = {}
  /\ undoStack = <<>>
  /\ unlistenProgress = "null"
  /\ tasks = [i \in Slots |-> Idle]
  /\ calls = 0
  /\ overlaps = 0
  /\ clock = 0
  /\ response = NoResponse
  /\ lastMove = NoMove
  /\ lastScan = NoScan

PhotoIds(ps) == {ps[i].id : i \in 1..Len(ps)}

FreeSlots == {i \in Slots : tasks[i].op = "idle"}
Busy == FreeSlots # Slots
NewSlot == CHOOSE i \in FreeSlots : \A j \in FreeSlots : i <= j

\* the user acts once the configuration is loaded; the calls of a
\* behaviour are bounded
CanCall ==
  /\ configLoaded
  /\ calls < MaxCalls
  /\ FreeSlots # {}
  /\ Busy => overlaps < MaxOverlaps

Called ==
  /\ calls' = calls + 1
  /\ overlaps' = IF Busy THEN overlaps + 1 ELSE overlaps

\* a handler call suspends at its first await
Suspend(task) ==
  /\ tasks' = [tasks EXCEPT ![NewSlot] = task]
  /\ Called

Answer(cmd, ok, value) == response' = [cmd |-> cmd, ok |-> ok, value |-> value]

\* App: useEffect(() => loadConfig())
LoadConfig ==
  /\ ~configLoaded
  /\ configLoaded' = TRUE
  /\ \/ directories' = savedConfig
     \/ directories' = directories   \* load_config failed
  /\ response' = NoResponse
  /\ UNCHANGED <<fs, savedConfig, registered, photos, lastScan, loading, scanProgress,
                 selectedIds, undoStack, unlistenProgress, tasks, calls,
                 overlaps, clock, lastMove>>
  /\ UNCHANGED <<smartVars, hookVars>>

\* saveConfig: save_config is answered before the next step
SetDirectories(dirs) ==
  /\ configLoaded
  /\ calls < MaxCalls
  /\ calls' = calls + 1
  /\ directories' = dirs
  /\ savedConfig' = dirs
  /\ response' = NoResponse
  /\ UNCHANGED <<fs, registered, configLoaded, photos, lastScan, loading, scanProgress,
                 selectedIds, undoStack, unlistenProgress, tasks, overlaps,
                 clock, lastMove>>
  /\ UNCHANGED <<smartVars, hookVars>>

Listed(path) == \E k \in 1..Len(directories) : directories[k].path = path

\* addDirectory without the check for a path already listed
AddDirectoryUnchecked(path) ==
  SetDirectories(Append(directories, DirectoryConfig(path)))

AddDirectory(path) ==
  IF Listed(path)
  THEN UNCHANGED vars
  ELSE SetDirectories(Append(directories, DirectoryConfig(path)))

\* the sidebar offers these for the directories it lists
RemoveDirectory(path) ==
  /\ Listed(path)
  /\ SetDirectories(Filter(directories, LAMBDA d : d.path # path))

ToggleDirectory(path) ==
  /\ Listed(path)
  /\ SetDirectories(
       [k \in 1..Len(directories) |->
          IF directories[k].path = path
          THEN [directories[k] EXCEPT !.enabled = ~directories[k].enabled]
          ELSE directories[k]])

\* scanDirectories passing every configured directory, enabled or not
EnabledDirsAll ==
  [k \in 1..Len(directories) |-> directories[k].path]

\* directories.filter((d) => d.enabled).map((d) => d.path)
EnabledDirs ==
  LET enabled == Filter(directories, LAMBDA d : d.enabled)
  IN  [k \in 1..Len(enabled) |-> enabled[k].path]

\* setupProgressListener up to its await: the listener that
\* unlistenProgress refers to is unsubscribed
Unlisten ==
  IF unlistenProgress = "subscribed"
  THEN /\ registered' = registered - 1
       /\ unlistenProgress' = "unsubscribed"
  ELSE UNCHANGED <<registered, unlistenProgress>>

\* scanDirectories() up to its first await, run by the call op that
\* occupies slot i; sets photos, lastScan, registered, unlistenProgress and
\* tasks
scanDirectories(i, op) ==
  IF EnabledDirs = <<>>
  THEN /\ photos' = <<>>
       /\ lastScan' = NoScan
       /\ tasks' = [tasks EXCEPT ![i] = Idle]
       /\ UNCHANGED <<registered, unlistenProgress>>
  ELSE /\ photos' = photos
       /\ lastScan' = [slot |-> i, shown |-> FALSE]
       /\ Unlisten
       /\ tasks' = [tasks EXCEPT ![i] =
            [Idle EXCEPT !.op = op, !.pc = "listen",
                         !.enabledDirs = EnabledDirs]]

\* a command failed: the catch block ends the call in slot i
Caught(i) ==
  /\ tasks' = [tasks EXCEPT ![i] = Idle]
  /\ UNCHANGED <<photos, lastScan, registered, unlistenProgress>>

\* the scan and refresh buttons are disabled while loading
ScanDirectories ==
  /\ ~loading
  /\ CanCall
  /\ Called
  /\ scanDirectories(NewSlot, "scanDirectories")
  /\ response' = NoResponse
  /\ UNCHANGED <<fs, savedConfig, configLoaded, directories, loading,
                 scanProgress, selectedIds, undoStack, clock, lastMove>>
  /\ UNCHANGED <<smartVars, hookVars>>

\* the scanProgress values that scanDirectories sets by itself
Starting == [phase |-> "starting", current |-> 0, total |-> 0]
Preparing(n) == [phase |-> "preparing", current |-> 0, total |-> n]
Rendering(n) == [phase |-> "rendering", current |-> n, total |-> n]

\* setupProgressListener: listen() resolves; scanDirectories sets loading
\* and 'starting' and invokes scan_directories
SetupProgressListenerDone(i) ==
  /\ tasks[i].pc = "listen"
  /\ unlistenProgress' = "subscribed"
  /\ registered' = registered + 1
  /\ loading' = TRUE
  /\ scanProgress' = Starting
  /\ tasks' = [tasks EXCEPT ![i].pc = "scan_directories"]
  /\ response' = NoResponse
  /\ UNCHANGED <<fs, savedConfig, configLoaded, directories, photos, lastScan,
                 selectedIds, undoStack, calls, overlaps, clock, lastMove>>
  /\ UNCHANGED <<smartVars, hookVars>>

\* the scan of photoStore.ts, which sets photos as soon as scan_directories
\* has answered
ScanDirectoriesDoneAtOnce(i) ==
  /\ tasks[i].pc = "scan_directories"
  /\ \/ /\ photos' = scan_directories(fs, tasks[i].enabledDirs)
        /\ lastScan' = IF lastScan.slot = i
                       THEN [lastScan EXCEPT !.shown = TRUE] ELSE lastScan
        /\ Answer("scan_directories", TRUE, <<>>)
     \/ /\ photos' = photos
        /\ lastScan' = lastScan
        /\ Answer("scan_directories", FALSE, <<>>)
  /\ loading' = FALSE
  /\ scanProgress' = NoProgress
  /\ tasks' = [tasks EXCEPT ![i] = Idle]
  /\ UNCHANGED <<fs, savedConfig, registered, configLoaded, directories,
                 selectedIds, undoStack, unlistenProgress, calls, overlaps,
                 clock, lastMove>>
  /\ UNCHANGED <<smartVars, hookVars>>

\* a scan whose catch block empties the photo list
ScanDirectoriesDoneClearsPhotos(i) ==
  /\ tasks[i].pc = "scan_directories"
  /\ \/ LET received == scan_directories(fs, tasks[i].enabledDirs)
        IN  /\ Answer("scan_directories", TRUE, <<>>)
            /\ scanProgress' = Preparing(Len(received))
            /\ tasks' = [tasks EXCEPT ![i].pc = "preparing",
                                      ![i].received = received]
            /\ UNCHANGED <<loading, photos>>
     \/ /\ Answer("scan_directories", FALSE, <<>>)
        /\ loading' = FALSE
        /\ scanProgress' = NoProgress
        /\ photos' = <<>>
        /\ tasks' = [tasks EXCEPT ![i] = Idle]
  /\ UNCHANGED <<fs, savedConfig, registered, configLoaded, directories,
                 lastScan, selectedIds, undoStack, unlistenProgress, calls,
                 overlaps, clock, lastMove>>
  /\ UNCHANGED <<smartVars, hookVars>>

\* scan_directories answers: on success 'preparing' is shown and the call
\* waits for an animation frame; on failure the catch block ends the scan
ScanDirectoriesDone(i) ==
  /\ tasks[i].pc = "scan_directories"
  /\ \/ LET received == scan_directories(fs, tasks[i].enabledDirs)
        IN  /\ Answer("scan_directories", TRUE, <<>>)
            /\ scanProgress' = Preparing(Len(received))
            /\ tasks' = [tasks EXCEPT ![i].pc = "preparing",
                                      ![i].received = received]
            /\ UNCHANGED loading
     \/ /\ Answer("scan_directories", FALSE, <<>>)
        /\ loading' = FALSE
        /\ scanProgress' = NoProgress
        /\ tasks' = [tasks EXCEPT ![i] = Idle]
  /\ UNCHANGED <<fs, savedConfig, registered, configLoaded, directories,
                 photos, lastScan, selectedIds, undoStack, unlistenProgress, calls,
                 overlaps, clock, lastMove>>
  /\ UNCHANGED <<smartVars, hookVars>>

\* the first requestAnimationFrame resolves: 'rendering' is shown
PreparingFrame(i) ==
  /\ tasks[i].pc = "preparing"
  /\ scanProgress' = Rendering(Len(tasks[i].received))
  /\ tasks' = [tasks EXCEPT ![i].pc = "rendering"]
  /\ response' = NoResponse
  /\ UNCHANGED <<fs, savedConfig, registered, configLoaded, directories,
                 photos, lastScan, loading, selectedIds, undoStack, unlistenProgress,
                 calls, overlaps, clock, lastMove>>
  /\ UNCHANGED <<smartVars, hookVars>>

\* the second requestAnimationFrame resolves: the photos received replace
\* the photo list and the scan is over
RenderingFrame(i) ==
  /\ tasks[i].pc = "rendering"
  /\ photos' = tasks[i].received
  /\ lastScan' = IF lastScan.slot = i
                 THEN [lastScan EXCEPT !.shown = TRUE] ELSE lastScan
  /\ loading' = FALSE
  /\ scanProgress' = NoProgress
  /\ tasks' = [tasks EXCEPT ![i] = Idle]
  /\ response' = NoResponse
  /\ UNCHANGED <<fs, savedConfig, registered, configLoaded, directories,
                 selectedIds, undoStack, unlistenProgress, calls, overlaps,
                 clock, lastMove>>
  /\ UNCHANGED <<smartVars, hookVars>>

SetSelection(ids) ==
  /\ selectedIds' = ids
  /\ response' = NoResponse
  /\ UNCHANGED <<fs, savedConfig, registered, configLoaded, directories,
                 photos, lastScan, loading, scanProgress, undoStack, unlistenProgress,
                 tasks, calls, overlaps, clock, lastMove>>
  /\ UNCHANGED <<smartVars, hookVars>>

SelectPhoto(id, multi) ==
  SetSelection((IF multi THEN selectedIds ELSE {}) \cup {id})

SelectAll == SetSelection(PhotoIds(photos))

DeselectAll == SetSelection({})

\* a toggle that only ever adds the id
toggleSelectionAddsOnly(selected, id) == selected \cup {id}

\* newSelected of toggleSelection
toggleSelection(selected, id) ==
  IF id \in selected THEN selected \ {id} ELSE selected \cup {id}

ToggleSelection(id) == SetSelection(toggleSelection(selectedIds, id))

PathsOf(ps) == [k \in 1..Len(ps) |-> ps[k].path]

WithIds(ids) == Filter(photos, LAMBDA p : p.id \in ids)

\* a file-operation handler up to its await
Invoke(task) ==
  /\ CanCall
  /\ Suspend(task)
  /\ response' = NoResponse
  /\ UNCHANGED <<fs, savedConfig, registered, configLoaded, directories,
                 photos, lastScan, loading, scanProgress, selectedIds, undoStack,
                 unlistenProgress, clock, lastMove>>
  /\ UNCHANGED <<smartVars, hookVars>>

movePhotos(ids, destFolder) ==
  Invoke([Idle EXCEPT !.op = "movePhotos", !.pc = "move_files",
                      !.files = PathsOf(WithIds(ids)), !.dest = destFolder])

MovePhotos ==
  \E ids \in SUBSET PhotoIds(photos), dest \in Dirs : movePhotos(ids, dest)

\* movePhotos recording the moves it asked for
MoveFilesDoneRecordsRequest(i, failAt) ==
  LET t == tasks[i]
      r == move_files(fs, t.files, t.dest, failAt)
      asked == [k \in 1..Len(t.files) |->
                  [from |-> t.files[k],
                   to   |-> [dir |-> t.dest, n |-> t.files[k].n]]]
  IN  /\ t.pc = "move_files"
      /\ fs' = r.fs
      /\ IF r.failed
         THEN /\ Answer("move_files", FALSE, <<>>)
              /\ lastMove' = NoMove
              /\ Caught(i)
              /\ UNCHANGED <<undoStack, clock>>
         ELSE /\ Answer("move_files", TRUE, r.ops)
              /\ clock' = clock + 1
              /\ undoStack' = Append(undoStack,
                   [type |-> "move", timestamp |-> clock + 1,
                    operations |-> asked])
              /\ lastMove' = [timestamp |-> clock + 1, operations |-> r.ops,
                              before |-> fs]
              /\ scanDirectories(i, t.op)
      /\ UNCHANGED <<savedConfig, configLoaded, directories, loading,
                     scanProgress, selectedIds, calls, overlaps>>
      /\ UNCHANGED <<smartVars, hookVars>>

\* move_files answers the movePhotos call in slot i
MoveFilesDone(i, failAt) ==
  LET t == tasks[i]
      r == move_files(fs, t.files, t.dest, failAt)
  IN  /\ t.pc = "move_files"
      /\ fs' = r.fs
      /\ IF r.failed
         THEN /\ Answer("move_files", FALSE, <<>>)
              /\ lastMove' = NoMove
              /\ Caught(i)
              /\ UNCHANGED <<undoStack, clock>>
         ELSE /\ Answer("move_files", TRUE, r.ops)
              /\ clock' = clock + 1
              /\ undoStack' = Append(undoStack,
                   [type |-> "move", timestamp |-> clock + 1,
                    operations |-> r.ops])
              /\ lastMove' = [timestamp |-> clock + 1, operations |-> r.ops,
                              before |-> fs]
              /\ scanDirectories(i, t.op)
      /\ UNCHANGED <<savedConfig, configLoaded, directories, loading,
                     scanProgress, selectedIds, calls, overlaps>>
      /\ UNCHANGED <<smartVars, hookVars>>

deletePhotos(ids) ==
  Invoke([Idle EXCEPT !.op = "deletePhotos", !.pc = "trash_files",
                      !.files = PathsOf(WithIds(ids))])

\* Toolbar.handleDelete, the user confirming the dialog
handleDelete ==
  /\ Cardinality(selectedIds) > 0
  /\ deletePhotos(selectedIds)

\* deletePhotos recording an undo entry
TrashFilesDoneRecords(i) ==
  LET t == tasks[i]
  IN  /\ t.pc = "trash_files"
      /\ lastMove' = NoMove
      /\ \/ /\ fs' = trash_files(fs, t.files)
            /\ Answer("trash_files", TRUE, <<>>)
            /\ selectedIds' = {}
            /\ undoStack' = Append(undoStack,
                 [type |-> "trash", timestamp |-> clock, operations |-> <<>>])
            /\ scanDirectories(i, t.op)
         \/ /\ Answer("trash_files", FALSE, <<>>)
            /\ Caught(i)
            /\ UNCHANGED <<fs, selectedIds, undoStack>>
      /\ UNCHANGED <<savedConfig, configLoaded, directories, loading,
                     scanProgress, calls, overlaps, clock>>
      /\ UNCHANGED <<smartVars, hookVars>>

TrashFilesDone(i) ==
  LET t == tasks[i]
  IN  /\ t.pc = "trash_files"
      /\ lastMove' = NoMove
      /\ \/ /\ fs' = trash_files(fs, t.files)
            /\ Answer("trash_files", TRUE, <<>>)
            /\ selectedIds' = {}
            /\ scanDirectories(i, t.op)
         \/ /\ Answer("trash_files", FALSE, <<>>)
            /\ Caught(i)
            /\ UNCHANGED <<fs, selectedIds>>
      /\ UNCHANGED <<savedConfig, configLoaded, directories, loading,
                     scanProgress, undoStack, calls, overlaps, clock>>
      /\ UNCHANGED <<smartVars, hookVars>>

renamePhoto(id, newName) ==
  /\ id \in PhotoIds(photos)
  /\ Invoke([Idle EXCEPT !.op = "renamePhoto", !.pc = "rename_file",
                         !.files = PathsOf(WithIds({id})),
                         !.newName = newName])

RenamePhoto ==
  \E id \in PhotoIds(photos), newName \in 1..MaxSuffix : renamePhoto(id, newName)

RenameFileDone(i) ==
  LET t == tasks[i]
      path == t.files[1]
  IN  /\ t.pc = "rename_file"
      /\ lastMove' = NoMove
      /\ IF rename_file_ok(fs, path, t.newName)
         THEN /\ fs' = rename_file(fs, path, t.newName)
              /\ Answer("rename_file", TRUE, <<>>)
              /\ scanDirectories(i, t.op)
         ELSE /\ Answer("rename_file", FALSE, <<>>)
              /\ Caught(i)
              /\ UNCHANGED fs
      /\ UNCHANGED <<savedConfig, configLoaded, directories, loading,
                     scanProgress, selectedIds, undoStack, calls, overlaps,
                     clock>>
      /\ UNCHANGED <<smartVars, hookVars>>

createFolder(path) ==
  Invoke([Idle EXCEPT !.op = "createFolder", !.pc = "create_folder",
                      !.dest = path])

CreateFolder == \E path \in Dirs : createFolder(path)

CreateFolderDone(i) ==
  LET t == tasks[i]
  IN  /\ t.pc = "create_folder"
      /\ lastMove' = NoMove
      /\ \/ /\ Answer("create_folder", TRUE, <<>>)
            /\ scanDirectories(i, t.op)
         \/ /\ Answer("create_folder", FALSE, <<>>)
            /\ Caught(i)
      /\ UNCHANGED <<fs, savedConfig, configLoaded, directories, loading,
                     scanProgress, selectedIds, undoStack, calls, overlaps,
                     clock>>
      /\ UNCHANGED <<smartVars, hookVars>>

Last(s) == s[Len(s)]

Inverse(operations) ==
  [k \in 1..Len(operations) |->
     [from |-> operations[k].to, to |-> operations[k].from]]

undo ==
  IF Len(undoStack) = 0
  THEN UNCHANGED vars
  ELSE Invoke([Idle EXCEPT !.op = "undo", !.pc = "move_files_batch",
                           !.lastOp = Last(undoStack),
                           !.operations = Inverse(Last(undoStack).operations)])

\* undo dropping the entry and rescanning whatever move_files_batch answers
MoveFilesBatchDoneDropsEntry(i, failAt) ==
  LET t == tasks[i]
      r == move_files_batch(fs, t.operations, failAt)
  IN  /\ t.pc = "move_files_batch"
      /\ fs' = r.fs
      /\ lastMove' = NoMove
      /\ Answer("move_files_batch", ~r.failed, <<>>)
      /\ undoStack' = SubSeq(undoStack, 1, Len(undoStack) - 1)
      /\ scanDirectories(i, t.op)
      /\ UNCHANGED <<savedConfig, configLoaded, directories, loading,
                     scanProgress, selectedIds, calls, overlaps, clock>>
      /\ UNCHANGED <<smartVars, hookVars>>

\* move_files_batch answers the undo call in slot i
MoveFilesBatchDone(i, failAt) ==
  LET t == tasks[i]
      r == move_files_batch(fs, t.operations, failAt)
  IN  /\ t.pc = "move_files_batch"
      /\ fs' = r.fs
      /\ lastMove' = NoMove
      /\ IF r.failed
         THEN /\ Answer("move_files_batch", FALSE, <<>>)
              /\ Caught(i)
              /\ UNCHANGED undoStack
         ELSE /\ Answer("move_files_batch", TRUE, <<>>)
              /\ undoStack' = SubSeq(undoStack, 1, Len(undoStack) - 1)
              /\ scanDirectories(i, t.op)
      /\ UNCHANGED <<savedConfig, configLoaded, directories, loading,
                     scanProgress, selectedIds, calls, overlaps, clock>>
      /\ UNCHANGED <<smartVars, hookVars>>

\* what the user and the backend do once the application runs
\* ---- scan-progress events and the status bar ----

MaxCount == 2

\* phases the backend reports while it scans
BackendPhases == {"discovery", "hashing", "complete"}

\* the ScanProgress payloads of the events
Payloads == [phase : BackendPhases, current : 0..MaxCount, total : 0..MaxCount]

\* the backend emits 'scan-progress' while scan_directories runs; every
\* listener subscribed calls setScanProgress(event.payload)
ScanProgressEvent(payload) ==
  /\ \E i \in Slots : tasks[i].pc = "scan_directories"
  /\ scanProgress' = IF registered > 0 THEN payload ELSE scanProgress
  /\ response' = NoResponse
  /\ UNCHANGED <<fs, savedConfig, registered, configLoaded, directories,
                 photos, lastScan, loading, selectedIds, undoStack, unlistenProgress,
                 tasks, calls, overlaps, clock, lastMove>>
  /\ UNCHANGED <<smartVars, hookVars>>

Min(a, b) == IF a < b THEN a ELSE b

\* StatusBar: the progress bar is rendered
ProgressBarShown == loading /\ scanProgress # NoProgress /\ scanProgress.total > 0

\* a width that is the plain percentage
ProgressBarWidthUncapped == (scanProgress.current * 100) \div scanProgress.total

\* StatusBar: Math.min(100, (current / total) * 100), in whole percents
ProgressBarWidth ==
  Min(100, (scanProgress.current * 100) \div scanProgress.total)

\* the directory list edited in the sidebar
NextDirectories ==
  \/ \E path \in Dirs : AddDirectory(path)
  \/ \E path \in Dirs : RemoveDirectory(path)
  \/ \E path \in Dirs : ToggleDirectory(path)

\* a scan, step by step
NextScans ==
  \/ ScanDirectories
  \/ \E i \in Slots : SetupProgressListenerDone(i)
  \/ \E i \in Slots : ScanDirectoriesDone(i)
  \/ \E i \in Slots : PreparingFrame(i)
  \/ \E i \in Slots : RenderingFrame(i)

\* the selection, and the deletion of the selected photos
NextSelection ==
  \/ \E id \in PhotoIds(photos), multi \in BOOLEAN : SelectPhoto(id, multi)
  \/ SelectAll
  \/ DeselectAll
  \/ \E id \in PhotoIds(photos) : ToggleSelection(id)
  \/ handleDelete
  \/ \E i \in Slots : TrashFilesDone(i)

\* the file operations that keep the files, and undo
NextFiles ==
  \/ MovePhotos
  \/ \E i \in Slots : \E failAt \in 0..Len(tasks[i].files) : MoveFilesDone(i, failAt)
  \/ RenamePhoto
  \/ \E i \in Slots : RenameFileDone(i)
  \/ CreateFolder
  \/ \E i \in Slots : CreateFolderDone(i)
  \/ undo
  \/ \E i \in Slots : \E failAt \in 0..Len(tasks[i].operations) : MoveFilesBatchDone(i, failAt)

NextUser == NextDirectories \/ NextScans \/ NextSelection \/ NextFiles

NextStore == LoadConfig \/ NextUser

-----------------------------------------------------------------------------
(***************************************************************************)
(* hooks/useSortedPhotos.ts: the duplicate groups of the photos            *)
(***************************************************************************)

\* members.sort((a, b) => a.path.length - b.path.length), a stable sort
RECURSIVE InsertByPathLength(_, _)
InsertByPathLength(sorted, p) ==
  IF sorted = <<>> THEN <<p>>
  ELSE IF PathLen(p.path) < PathLen(Head(sorted).path) THEN <<p>> \o sorted
  ELSE <<Head(sorted)>> \o InsertByPathLength(Tail(sorted), p)

RECURSIVE SortByPathLength(_)
SortByPathLength(members) ==
  IF members = <<>> THEN <<>>
  ELSE InsertByPathLength(SortByPathLength(SubSeq(members, 1, Len(members) - 1)),
                          members[Len(members)])

\* the group keys in the order the loop meets them
RECURSIVE GroupKeys(_, _, _)
GroupKeys(ps, i, keys) ==
  IF i > Len(ps) THEN keys
  ELSE LET p == ps[i]
           grouped == /\ p.isDuplicate
                      /\ p.duplicateOf # NoId
                      /\ p.duplicateOf \in PhotoIds(ps)
                      /\ p.duplicateOf \notin SeqOf(keys)
       IN  GroupKeys(ps, i + 1, IF grouped THEN Append(keys, p.duplicateOf) ELSE keys)

\* a group made of the duplicates alone, the original left out
GroupOfCopiesOnly(ps, key) ==
  LET copies  == Filter(ps, LAMBDA p : p.isDuplicate /\ p.duplicateOf = key)
      members == SortByPathLength(copies)
  IN  [originalId |-> Head(members).id,
       original   |-> Head(members),
       duplicates |-> Tail(members)]

GroupOf(ps, key) ==
  LET original == Filter(ps, LAMBDA p : p.id = key)[1]
      copies   == Filter(ps, LAMBDA p : p.isDuplicate /\ p.duplicateOf = key)
      members  == SortByPathLength(<<original>> \o copies)
  IN  [originalId |-> Head(members).id,
       original   |-> Head(members),
       duplicates |-> Tail(members)]

\* a.path.localeCompare(b.path) for the paths of this model: "/d/x",
\* "/d/x (2)", "/s/x", "/s/x (2)", ... compare by folder, then by suffix
localeCompare(a, b) ==
  IF a = b THEN 0
  ELSE IF a.dir = b.dir THEN (IF a.n < b.n THEN -1 ELSE 1)
  ELSE IF a.dir = "/d" THEN -1 ELSE 1

SortOrders == {"asc", "desc"}

\* the comparator of both hooks for sortField 'path'
Comparison(a, b, order) ==
  IF order = "asc" THEN localeCompare(a, b) ELSE 0 - localeCompare(a, b)

\* what an element is sorted by: a photo's path, a group's original.path
SortPath(e) == IF "original" \in DOMAIN e THEN e.original.path ELSE e.path

\* Array.prototype.sort with that comparator, a stable sort
RECURSIVE InsertByPath(_, _, _)
InsertByPath(sorted, e, order) ==
  IF sorted = <<>> THEN <<e>>
  ELSE IF Comparison(SortPath(e), SortPath(Head(sorted)), order) < 0
       THEN <<e>> \o sorted
  ELSE <<Head(sorted)>> \o InsertByPath(Tail(sorted), e, order)

RECURSIVE SortByPath(_, _)
SortByPath(s, order) ==
  IF s = <<>> THEN <<>>
  ELSE InsertByPath(SortByPath(SubSeq(s, 1, Len(s) - 1), order),
                    s[Len(s)], order)

\* useDuplicateGroups: groupMap turned into DuplicateGroup[], in the
\* insertion order of the keys
BuildGroups(ps) ==
  LET keys == GroupKeys(ps, 1, <<>>)
  IN  [k \in 1..Len(keys) |-> GroupOf(ps, keys[k])]

\* the hook, for sortField 'path'
useDuplicateGroups(ps, mode, ld, order) ==
  IF ld \/ mode # "duplicates" \/ Len(ps) = 0 THEN <<>>
  ELSE SortByPath(BuildGroups(ps), order)

\* a filter that takes isDuplicate alone as the mark of a duplicate
FilteredByFlagOnly(ps, mode) ==
  IF mode = "duplicates"
  THEN LET duplicates == Filter(ps, LAMBDA p : p.isDuplicate)
           duplicateOriginalIds == {duplicates[k].duplicateOf : k \in 1..Len(duplicates)}
           originals == Filter(ps, LAMBDA p : p.id \in duplicateOriginalIds)
       IN  originals \o duplicates
  ELSE ps

\* useSortedPhotos: the photos that pass the filter
Filtered(ps, mode) ==
  IF mode = "duplicates"
  THEN LET duplicates == Filter(ps, LAMBDA p : p.isDuplicate /\ p.duplicateOf # NoId)
           duplicateOriginalIds == {duplicates[k].duplicateOf : k \in 1..Len(duplicates)}
           originals == Filter(ps, LAMBDA p : p.id \in duplicateOriginalIds)
       IN  originals \o duplicates
  ELSE ps

\* the hook, for sortField 'path'
useSortedPhotos(ps, mode, ld, order) ==
  IF ld \/ Len(ps) = 0 THEN <<>>
  ELSE SortByPath(Filtered(ps, mode), order)

\* ---- the hooks applied to every photo list ----

MaxPhotos == 4

FilterModes == {"duplicates", "all"}

\* the paths that a duplicateOf of the photo lists may name: one of the
\* shortest paths and one of the longest
OriginalPaths == {[dir |-> "/d", n |-> 1], [dir |-> "/s", n |-> MaxSuffix]}

\* a PhotoFile at path p; the id is derived from the path
PhotoFiles ==
  {[id |-> p, path |-> p, isDuplicate |-> b, duplicateOf |-> d] :
     p \in Paths, b \in BOOLEAN, d \in OriginalPaths \cup {NoId}}

\* the photo lists of at most MaxPhotos photos at distinct paths
PhotoLists ==
  {ps \in UNION {[1..n -> PhotoFiles] : n \in 0..MaxPhotos} :
     \A i, j \in 1..Len(ps) : i # j => ps[i].path # ps[j].path}

\* the store before anything was rendered: filterMode and sortOrder as the
\* initial state has them
HooksAtStart ==
  /\ filterMode = "duplicates"
  /\ sortOrder = "desc"
  /\ sortedPhotos = <<>>
  /\ duplicateGroups = <<>>
  /\ pcHooks = "input"

\* a render of a component that uses both hooks
Render ==
  /\ pcHooks = "input"
  /\ sortedPhotos' = useSortedPhotos(photos, filterMode, loading, sortOrder)
  /\ duplicateGroups' = useDuplicateGroups(photos, filterMode, loading, sortOrder)
  /\ pcHooks' = "rendered"
  /\ UNCHANGED <<filterMode, sortOrder, smartVars, storeVars>>

-----------------------------------------------------------------------------
(***************************************************************************)
(* Specifications                                                          *)
(***************************************************************************)

\* the store before the application has loaded anything
StoreAtStart ==
  /\ InitStore
  /\ HooksAtStart

\* no duplicate groups on display
NoGroups == InitSmartVars(<<>>, {})

\* the smart selection, over every list of displayed groups
InitSmart == StoreAtStart /\ \E gs \in SmartInputs : InitSmartVars(gs, {})
NextSmart == SmartSelect
SpecSmart == InitSmart /\ [][NextSmart]_vars

\* the safety check, over every list of groups and every selection
InitSafety ==
  /\ StoreAtStart
  /\ \E gs \in SafetyInputs : \E sel \in SUBSET SafetyIds : InitSmartVars(gs, sel)
NextSafety == FullySelected
SpecSafety == InitSafety /\ [][NextSafety]_vars

\* the store, the backend and the user, from the start of the application
Init == InitStore /\ NoGroups /\ HooksAtStart
Next == NextStore
Spec == Init /\ [][Next]_vars

\* the same, from the state the first scan leaves: the configuration is
\* loaded and the photos of the enabled directories are listed
InitScanned ==
  /\ NoGroups
  /\ HooksAtStart
  /\ fs = InitialFiles
  /\ savedConfig = InitialConfig
  /\ registered = 1
  /\ configLoaded = TRUE
  /\ directories = InitialConfig
  /\ photos = scan_directories(fs, <<"/s", "/d">>)
  /\ loading = FALSE
  /\ scanProgress = NoProgress
  /\ selectedIds = {}
  /\ undoStack = <<>>
  /\ unlistenProgress = "subscribed"
  /\ tasks = [i \in Slots |-> Idle]
  /\ calls = 0
  /\ overlaps = 0
  /\ clock = 0
  /\ response = NoResponse
  /\ lastMove = NoMove
  /\ lastScan = [slot |-> 1, shown |-> TRUE]
NextScanned == NextScans \/ NextFiles
SpecScanned == InitScanned /\ [][NextScanned]_vars

\* the hooks, over every photo list, filter mode, sort order and loading flag
InitHooks ==
  /\ NoGroups
  /\ photos \in PhotoLists
  /\ loading \in BOOLEAN
  /\ fs = InitialFiles
  /\ savedConfig = InitialConfig
  /\ registered = 0
  /\ configLoaded = TRUE
  /\ directories = InitialConfig
  /\ scanProgress = NoProgress
  /\ selectedIds = {}
  /\ undoStack = <<>>
  /\ unlistenProgress = "null"
  /\ tasks = [i \in Slots |-> Idle]
  /\ calls = 0
  /\ overlaps = 0
  /\ clock = 0
  /\ response = NoResponse
  /\ lastMove = NoMove
  /\ lastScan = NoScan
  /\ filterMode \in FilterModes
  /\ sortOrder \in SortOrders
  /\ sortedPhotos = <<>>
  /\ duplicateGroups = <<>>
  /\ pcHooks = "input"
SpecHooks == InitHooks /\ [][Render]_vars

\* scans with their progress events, from the state the first scan leaves
NextProgress ==
  \/ NextDirectories
  \/ NextScans
  \/ \E payload \in Payloads : ScanProgressEvent(payload)
SpecProgress == InitScanned /\ [][NextProgress]_vars

-----------------------------------------------------------------------------
(***************************************************************************)
(* Properties of the smart-select rule engine (SpecSmart, SpecSafety).     *)
(***************************************************************************)

SeqRange(s) == {s[i] : i \in 1..Len(s)}

RECURSIVE MemberCount(_)
MemberCount(gs) ==
  IF gs = <<>> THEN 0 ELSE Len(AllPhotos(Head(gs))) + MemberCount(Tail(gs))

MemberIds(gs) == UNION {SeqIds(AllPhotos(gs[i])) : i \in 1..Len(gs)}

\* no photo id occurs twice in the groups, within a group or across groups
DistinctIds(gs) == Cardinality(MemberIds(gs)) = MemberCount(gs)

SmartDone == pcSmart = "getSmartSelections"

\* C1: for groups with pairwise distinct photo ids, getSmartSelections
\* never returns the ids of all members of a group: every group keeps at
\* least one member whose id is not in the returned set.
C1_NeverSelectsWholeGroup ==
  (SmartDone /\ DistinctIds(groups)) =>
     \A i \in 1..Len(groups) :
        \E p \in SeqRange(AllPhotos(groups[i])) : p.id \notin toSelect

\* two groups, each with a member selected for deletion and a member kept
C1_Witness ==
  /\ SmartDone /\ DistinctIds(groups)
  /\ Len(groups) = 2
  /\ \A i \in 1..Len(groups) :
        /\ SeqIds(AllPhotos(groups[i])) \cap toSelect # {}
        /\ SeqIds(AllPhotos(groups[i])) \ toSelect # {}

\* the preferred side of rule r (1: year folder, 2: date-named file,
\* 3: inside Camera Uploads)
Preferred(r, p) ==
  CASE r = 1 -> isYearFolderPath(p.path)
    [] r = 2 -> isDateNamedFile(p.path)
    [] OTHER -> isCameraUploadsPath(p.path)

\* the reference procedure: ordered and narrowing, a rule that does not
\* split the candidates is skipped
RECURSIVE RefDeletion(_, _)
RefDeletion(cands, r) ==
  IF r > 3 THEN {}
  ELSE LET pref  == {p \in cands : Preferred(r, p)}
           other == cands \ pref
       IN  IF pref # {} /\ other # {}
           THEN other \cup RefDeletion(pref, r + 1)
           ELSE RefDeletion(cands, r + 1)

\* C2: for every group the photos applySmartRules returns are exactly the
\* deletion set of the reference procedure (each once), and a group of one
\* member yields none.
C2_MatchesReferenceProcedure ==
  SmartDone =>
     \A i \in 1..Len(groups) :
        LET all == AllPhotos(groups[i]) IN
          /\ SeqRange(photosToDelete[i]) = RefDeletion(SeqRange(all), 1)
          /\ Cardinality(SeqRange(photosToDelete[i])) = Len(photosToDelete[i])
          /\ Len(all) = 1 => photosToDelete[i] = <<>>

\* a group of four in which each of the three rules splits the candidates,
\* next to a group of one member
C2_Witness ==
  /\ SmartDone
  /\ \E i \in 1..Len(groups) :
        /\ Len(AllPhotos(groups[i])) = 4
        /\ Len(photosToDelete[i]) = 3
        /\ LET s1 == RuleYearFolder(RuleStart(AllPhotos(groups[i])))
               s2 == RuleDateNamed(s1)
           IN  Len(s1.toDelete) = 1 /\ Len(s2.toDelete) = 2
  /\ \E i \in 1..Len(groups) : Len(AllPhotos(groups[i])) = 1

\* the pool photos that lie in a Camera Uploads year folder
YearFolderIds == {"p6", "p7", "p8"}

\* the ids of the group of scenario S5 and of its expected deletion set
ScenarioS5Ids == {"p8", "p5", "p2"}
ScenarioS5Deleted == {"p5", "p2"}

\* C3: in a group with members in a year folder and members outside, rule 1
\* (the first photos pushed to the result) selects exactly the members
\* outside the year folder, whatever their names and folders; what follows
\* in the result are year-folder members only.  The group of scenario S5
\* yields exactly its two members outside the year folder.
C3_YearFolderPrecedence ==
  SmartDone =>
     \A i \in 1..Len(groups) :
        LET all     == AllPhotos(groups[i])
            outside == SelectSeq(all, LAMBDA p : p.id \notin YearFolderIds)
            k       == Len(outside)
            res     == photosToDelete[i]
        IN  /\ (k > 0 /\ k < Len(all)) =>
                  /\ Len(res) >= k
                  /\ SubSeq(res, 1, k) = outside
                  /\ \A j \in (k + 1)..Len(res) : res[j].id \in YearFolderIds
            /\ SeqIds(all) = ScenarioS5Ids => SeqIds(res) = ScenarioS5Deleted

\* the group of scenario S5 (its members outside the year folder are in
\* Camera Uploads and on the desktop), and a group whose member outside the
\* year folder is date-named
C3_Witness ==
  /\ SmartDone
  /\ \E i \in 1..Len(groups) :
        /\ SeqIds(AllPhotos(groups[i])) = ScenarioS5Ids
        /\ SeqIds(photosToDelete[i]) = ScenarioS5Deleted
  /\ \E i \in 1..Len(groups) :
        /\ SeqIds(AllPhotos(groups[i])) = {"p3", "p7"}
        /\ photosToDelete[i] = <<PhotoPool[3]>>

SafetyDone == pcSmart = "getFullySelectedGroups"

FullySelectedIndexes(gs, sel) ==
  {i \in 1..Len(gs) : SeqIds(AllPhotos(gs[i])) \subseteq sel}

\* C4: getFullySelectedGroups returns the number of groups whose original
\* and duplicates all have their id in selectedIds; a group with an
\* unselected member is not counted and selected ids outside the groups
\* make no difference.
C4_CountsFullySelectedGroups ==
  SafetyDone =>
     /\ count = Cardinality(FullySelectedIndexes(groups, selection))
     /\ count = Cardinality(FullySelectedIndexes(groups,
                               selection \cap MemberIds(groups)))

\* one of two groups fully selected, the other partly, and a selected id
\* that is in no group
C4_Witness ==
  /\ SafetyDone
  /\ Len(groups) = 2
  /\ count = 1
  /\ selection \ MemberIds(groups) # {}
  /\ \E i \in 1..Len(groups) :
        /\ SeqIds(AllPhotos(groups[i])) \cap selection # {}
        /\ ~(SeqIds(AllPhotos(groups[i])) \subseteq selection)

\* C17: rule 3 prefers a path exactly when it contains
\* '/Dropbox/Camera Uploads/': for every photo of the groups handed to
\* getSmartSelections, isCameraUploadsPath is true if and only if the path
\* contains that substring (a folder whose name only ends in 'Dropbox', as in
\* '/OldDropbox/Camera Uploads/x.jpg', is not preferred).
C17_PreferredIffFullPattern ==
  SmartDone =>
    \A i \in 1..Len(groups) :
      \A p \in SeqRange(AllPhotos(groups[i])) :
        isCameraUploadsPath(p.path) <=> Includes(p.path, PatCameraUploadsFull)

-----------------------------------------------------------------------------
(***************************************************************************)
(* C5 .. C10: deleting, moving and undoing                                 *)
(***************************************************************************)

\* the call in slot i invokes the command cmd in this step
Invokes(i, cmd) == tasks[i].pc # cmd /\ tasks'[i].pc = cmd

\* the command cmd that the call in slot i awaits is answered in this step
Answered(i, cmd) ==
  /\ tasks[i].pc = cmd
  /\ tasks'[i] # tasks[i]
  /\ response'.cmd = cmd

Succeeded(i, cmd) == Answered(i, cmd) /\ response'.ok

\* C5: whenever some duplicate group of the scanned photos has every member
\* selected, the delete action does not invoke trash_files.
C5_WarningBlocksDelete ==
  [][\A i \in Slots :
       Invokes(i, "trash_files") =>
         getFullySelectedGroups(useDuplicateGroups(photos, filterMode, loading, sortOrder), selectedIds) = 0]_vars

\* the moves of lastMove are undone in the file system f: every moved file
\* is back at its path and none is at its destination
Restored(f) ==
  \A k \in 1..Len(lastMove.operations) :
    LET op == lastMove.operations[k]
    IN  /\ f[op.from] = lastMove.before[op.from]
        /\ f[op.to] # lastMove.before[op.from]

\* C6: a successful movePhotos followed, with no file operation in between,
\* by a successful undo of its entry leaves every moved file at its original
\* path and none at its destination.
C6_UndoIsLeftInverseOfMove ==
  [][\A i \in Slots :
       (/\ Succeeded(i, "move_files_batch")
        /\ lastMove # NoMove
        /\ tasks[i].lastOp.timestamp = lastMove.timestamp)
       => Restored(fs')]_vars

\* undo() is called and takes the last entry, inverted operation by operation
UndoTakesLast(i) ==
  /\ undoStack # <<>>
  /\ tasks'[i].op = "undo"
  /\ tasks'[i].lastOp = undoStack[Len(undoStack)]
  /\ Len(tasks'[i].operations) = Len(tasks'[i].lastOp.operations)
  /\ \A k \in 1..Len(tasks'[i].operations) :
       /\ tasks'[i].operations[k].from = tasks'[i].lastOp.operations[k].to
       /\ tasks'[i].operations[k].to = tasks'[i].lastOp.operations[k].from

\* the entry the undo in slot i replayed is the one removed
UndoRemovesReplayed(i) == undoStack = Append(undoStack', tasks[i].lastOp)

\* C7: undo() with a non-empty stack takes the last entry, invokes
\* move_files_batch with the inverse of each of its operations and on success
\* removes exactly that entry; with an empty stack it invokes nothing.
C7_UndoPopsReplayedEntry ==
  [][\A i \in Slots :
       /\ Invokes(i, "move_files_batch") => UndoTakesLast(i)
       /\ Succeeded(i, "move_files_batch") => UndoRemovesReplayed(i)]_vars

\* C8: a successful undo leaves the stack it found without its last element,
\* and pushes nothing.
C8_UndoNeverPushes ==
  [][\A i \in Slots :
       Succeeded(i, "move_files_batch") =>
         /\ Len(undoStack') = Len(undoStack) - 1
         /\ \A k \in 1..Len(undoStack') : undoStack'[k] = undoStack[k]]_vars

\* C9: the undo stack changes only when move_files or move_files_batch is
\* answered: trash, rename, create-folder, scans, selection and directory
\* actions leave it unchanged, succeeding or failing; only movePhotos makes
\* it longer and only undo makes it shorter.
C9_OnlyMoveAndUndoChangeStack ==
  [][/\ response'.cmd \notin {"move_files", "move_files_batch"}
          => undoStack' = undoStack
     /\ \A i \in Slots :
          tasks[i].op \in {"deletePhotos", "renamePhoto", "createFolder",
                           "scanDirectories"}
          /\ tasks'[i] # tasks[i] => undoStack' = undoStack
     /\ Len(undoStack') > Len(undoStack) =>
          \E i \in Slots : tasks[i].op = "movePhotos" /\ Succeeded(i, "move_files")
     /\ Len(undoStack') < Len(undoStack) =>
          \E i \in Slots : tasks[i].op = "undo" /\ Succeeded(i, "move_files_batch")
    ]_vars

C9_Witness ==
  /\ response.cmd = "trash_files"
  /\ response.ok
  /\ Len(undoStack) = 1
  /\ Len(undoStack[1].operations) > 0

\* C10: the stack is empty at the start and loading the configuration leaves
\* it empty; every successful movePhotos appends exactly one entry of type
\* 'move' whose operations are those move_files returned.
C10_MoveAppendsReturnedOperations ==
  /\ undoStack = <<>>
  /\ [][/\ configLoaded' # configLoaded => undoStack' = <<>>
        /\ \A i \in Slots :
             Succeeded(i, "move_files") =>
               /\ Len(undoStack') = Len(undoStack) + 1
               /\ SubSeq(undoStack', 1, Len(undoStack)) = undoStack
               /\ undoStack'[Len(undoStack')].type = "move"
               /\ undoStack'[Len(undoStack')].operations = response'.value
       ]_vars

\* a move that had to rename: the entry holds the path move_files chose
C10_Witness ==
  /\ response.cmd = "move_files"
  /\ response.ok
  /\ undoStack # <<>>
  /\ undoStack[Len(undoStack)].operations = response.value
  /\ \E k \in 1..Len(response.value) :
       response.value[k].to.n # response.value[k].from.n

\* C11: when move_files reports a failure after having moved some files, the
\* moves that did succeed are recorded: an undo entry is appended whose
\* operations are moves the backend really performed (the file that was at
\* from is now at to), so that a following undo can take them back.
C11_PartialFailureIsRecorded ==
  [][\A i \in Slots :
       (Answered(i, "move_files") /\ ~response'.ok /\ fs' # fs) =>
         /\ Len(undoStack') = Len(undoStack) + 1
         /\ Last(undoStack').operations # <<>>
         /\ \A k \in 1..Len(Last(undoStack').operations) :
              LET op == Last(undoStack').operations[k]
              IN  fs'[op.to] = fs[op.from] /\ fs[op.from] # NoFile]_vars

\* the slots whose handler awaits the answer of scan_directories
ScansInFlight == {i \in Slots : tasks[i].pc = "scan_directories"}

\* C12: scans are not interleaved: in every reachable state at most one
\* scan_directories invocation is in flight, whatever handler started it.
C12_ScansNotInterleaved == Cardinality(ScansInFlight) <= 1

\* arg holds the paths of the enabled entries of dirs, one each, in the
\* order of dirs
EnabledPathsInOrder(arg, dirs) ==
  LET idx == {k \in 1..Len(dirs) : dirs[k].enabled}
  IN  /\ Len(arg) = Cardinality(idx)
      /\ \A j \in 1..Len(arg) :
           \E k \in idx : /\ arg[j] = dirs[k].path
                          /\ Cardinality({m \in idx : m < k}) = j - 1

\* a call of scanDirectories in slot i goes on past its early return
ScanCallProceeds(i) == tasks[i].pc # "listen" /\ tasks'[i].pc = "listen"

\* C13: the argument of scan_directories is exactly the paths of the
\* directories that are enabled when scanDirectories is called, in list order;
\* it is never empty, and with no directory enabled the call returns without
\* invoking scan_directories.
C13_ScansEnabledDirectories ==
  [][\A i \in Slots :
       /\ ScanCallProceeds(i) =>
            /\ EnabledPathsInOrder(tasks'[i].enabledDirs, directories)
            /\ tasks'[i].enabledDirs # <<>>
       /\ Invokes(i, "scan_directories") =>
            /\ tasks[i].pc = "listen"
            /\ tasks'[i].enabledDirs = tasks[i].enabledDirs
       /\ (\A k \in 1..Len(directories) : ~directories[k].enabled) =>
            ~ScanCallProceeds(i)]_vars

\* a scan is in flight for one directory while the other one is disabled
C13_Witness ==
  \E i \in Slots :
    /\ tasks[i].pc = "scan_directories"
    /\ Len(tasks[i].enabledDirs) = 1
    /\ Len(directories) = 2
    /\ \E k \in 1..2 : /\ ~directories[k].enabled
                       /\ directories[k].path # tasks[i].enabledDirs[1]

\* C16: while a scan_directories invocation is in flight a scan-progress
\* listener is subscribed, so that no progress event of a running scan finds
\* no listener.
C16_ListenerDuringScan == ScansInFlight # {} => registered > 0

\* the positions of a scanDirectories call between its first await and its end
ScanStages == {"listen", "scan_directories", "preparing", "rendering"}

\* the call in slot i takes this step
Steps(i) == tasks'[i] # tasks[i]

\* no scan but the one in slot i is running, before and after the step
ScansAlone(i) ==
  \A j \in Slots \ {i} :
    tasks[j].pc \notin ScanStages /\ tasks'[j].pc \notin ScanStages

\* the scan in slot i runs on its own: no other scan is running, and none
\* has ended (and cleared loading) since this one set loading
Undisturbed(i) ==
  /\ ScansAlone(i)
  /\ tasks[i].pc \in ScanStages \ {"listen"} => loading

\* the closed set of phases
PhaseSet ==
  {"starting", "discovery", "grouping", "analyzing", "trailing_hash",
   "hashing", "duplicates", "preparing", "rendering", "complete", "cancelled"}

SetsConsistentProgress(i) ==
  (Steps(i) /\ scanProgress' # scanProgress /\ scanProgress' # NoProgress) =>
    /\ scanProgress'.current <= scanProgress'.total
    /\ scanProgress'.phase \in {"starting", "preparing", "rendering"}
    /\ scanProgress'.phase = "starting" =>
         scanProgress'.current = 0 /\ scanProgress'.total = 0
    /\ scanProgress'.phase = "preparing" =>
         /\ scanProgress'.current = 0
         /\ scanProgress'.total = Len(tasks'[i].received)
    /\ scanProgress'.phase = "rendering" =>
         /\ scanProgress'.current = Len(tasks[i].received)
         /\ scanProgress'.total = Len(tasks[i].received)

\* C19: every scanProgress value the store sets by itself has
\* current <= total ('starting' 0 of 0, 'preparing' 0 of the number of photos
\* received, 'rendering' all of them), and the progress bar, whenever it is
\* shown, is at most 100% wide, whatever payload an event delivered.
C19_ProgressWithinBounds ==
  /\ [][\A i \in Slots : SetsConsistentProgress(i)]_vars
  /\ [](ProgressBarShown => ProgressBarWidth <= 100)

\* the bar is shown for a payload with current above total
C19_Witness ==
  /\ ProgressBarShown
  /\ scanProgress.current > scanProgress.total
  /\ ProgressBarWidth = 100

\* the scan in slot i ends with this step, having shown 'rendering'
ScanEnds(i) == tasks[i].pc = "rendering" /\ Steps(i)

\* no scan is in flight after the step
NoScanLeft == \A j \in Slots : tasks'[j].pc \notin ScanStages

\* C21: a successful scan replaces the photo list by the list that
\* scan_directories returned, and once no scan is in flight any more the
\* photo list is the result of the scan that was started last: a scan that
\* ends after a later-started scan has shown its result leaves that result.
C21_LastStartedScanWins ==
  [][\A i \in Slots :
       /\ Succeeded(i, "scan_directories") =>
            tasks'[i].received = scan_directories(fs, tasks[i].enabledDirs)
       /\ (ScanEnds(i) /\ NoScanLeft) =>
            /\ lastScan.slot = i => photos' = tasks[i].received
            /\ (lastScan.slot # i /\ lastScan.shown) => photos' = photos]_vars

\* another undo() call has the entry e in replay
InReplayElsewhere(i, e) ==
  \E j \in Slots \ {i} : tasks[j].pc = "move_files_batch" /\ tasks[j].lastOp = e

\* C22: however undo() calls interleave, no undo entry is handed to
\* move_files_batch while another invocation is replaying it, and an entry
\* leaves the stack only when the invocation that replayed this very entry
\* has succeeded.
C22_UndoEntryReplayedOnce ==
  [][\A i \in Slots :
       /\ Invokes(i, "move_files_batch") =>
            ~InReplayElsewhere(i, tasks'[i].lastOp)
       /\ (Steps(i) /\ Len(undoStack') < Len(undoStack)) =>
            /\ Succeeded(i, "move_files_batch")
            /\ Last(undoStack) = tasks[i].lastOp]_vars

\* the command cmd that the call in slot i awaits is answered with an error
Failed(i, cmd) == Answered(i, cmd) /\ ~response'.ok

\* the call in slot i ends in this step without starting a rescan
EndsWithoutRescan(i) ==
  /\ tasks'[i] = Idle
  /\ UNCHANGED <<photos, loading, scanProgress, registered>>

\* C23: a move_files_batch that fails during undo() leaves the undo stack
\* exactly as it was and starts no rescan; a move_files that fails during
\* movePhotos() appends no undo entry and starts no rescan.
C23_FailedMoveKeepsStack ==
  [][\A i \in Slots :
       (Failed(i, "move_files_batch") \/ Failed(i, "move_files")) =>
         /\ undoStack' = undoStack
         /\ EndsWithoutRescan(i)]_vars

\* an undo has just failed and its entry is still on the stack, no scan runs
C23_Witness ==
  /\ response.cmd = "move_files_batch"
  /\ ~response.ok
  /\ undoStack # <<>>
  /\ Len(undoStack[Len(undoStack)].operations) > 0
  /\ \A i \in Slots : tasks[i] = Idle

\* the calls whose scan_directories invocation has not been answered yet
InvocationsInFlight == {i \in Slots : tasks[i].pc = "scan_directories"}

\* C24: while a scan_directories invocation is in flight loading is true, and
\* loading becomes false only in a step after which no invocation is in
\* flight any more.
C24_LoadingWhileScanning ==
  /\ [](InvocationsInFlight # {} => loading)
  /\ [][(loading /\ ~loading') =>
          \A i \in Slots : tasks'[i].pc # "scan_directories"]_vars

\* C25: when scan_directories fails the photo list, the selection and the
\* undo stack stay as they were, loading becomes false and scanProgress null;
\* the photo list after a failed rescan is the one from before the file
\* operation that started the rescan.
C25_FailedScanKeepsPhotos ==
  [][\A i \in Slots :
       /\ (Steps(i) /\ tasks'[i].pc \in {"listen", "scan_directories"}) =>
            photos' = photos
       /\ Failed(i, "scan_directories") =>
            /\ photos' = photos
            /\ selectedIds' = selectedIds
            /\ undoStack' = undoStack
            /\ ~loading'
            /\ scanProgress' = NoProgress
            /\ tasks'[i] = Idle]_vars

\* the rescan of a successful move has just failed: the photo list still
\* shows a file at the path it was moved away from
C25_Witness ==
  /\ response.cmd = "scan_directories"
  /\ ~response.ok
  /\ ~loading
  /\ lastMove # NoMove
  /\ \E k \in 1..Len(lastMove.operations) :
       /\ \E j \in 1..Len(photos) : photos[j].path = lastMove.operations[k].from
       /\ fs[lastMove.operations[k].from] # lastMove.before[lastMove.operations[k].from]

\* C26: every selected id is the id of a photo of the current photo list.
C26_SelectionWithinPhotos == selectedIds \subseteq PhotoIds(photos)

\* C27: at most one scan-progress listener is subscribed at any time.
C27_OneListener == registered <= 1

\* the paths of a directory list
DirectoryPaths(dirs) == {dirs[k].path : k \in 1..Len(dirs)}

\* this step appends an enabled entry for a path that was not listed
AddsEntry(path) ==
  /\ path \notin DirectoryPaths(directories)
  /\ Len(directories') = Len(directories) + 1
  /\ SubSeq(directories', 1, Len(directories)) = directories
  /\ directories'[Len(directories')].path = path
  /\ directories'[Len(directories')].enabled

\* this step takes out the entry of path and keeps the others in order
RemovesEntry(path) ==
  \E k \in 1..Len(directories) :
    /\ directories[k].path = path
    /\ directories' = SubSeq(directories, 1, k - 1)
                        \o SubSeq(directories, k + 1, Len(directories))

\* this step flips the enabled flag of the entry of path and nothing else
TogglesEntry(path) ==
  /\ path \in DirectoryPaths(directories)
  /\ Len(directories') = Len(directories)
  /\ \A k \in 1..Len(directories) :
       directories'[k] =
         IF directories[k].path = path
         THEN [directories[k] EXCEPT !.enabled = ~directories[k].enabled]
         ELSE directories[k]

\* C29: no two entries of directories have the same path, and once the
\* configuration is loaded every change of the list is the addition of a
\* path not yet listed, the removal of the one entry of a path, or the flip
\* of the enabled flag of the one entry of a path, the other entries and
\* their order left as they were.
C29_DirectoriesHaveDistinctPaths ==
  /\ [](\A j, k \in 1..Len(directories) :
          j # k => directories[j].path # directories[k].path)
  /\ [][(configLoaded /\ directories' # directories) =>
          \E path \in Dirs :
            AddsEntry(path) \/ RemovesEntry(path) \/ TogglesEntry(path)]_vars

\* the list holds "/d" and then "/s", switched off, after three calls: two
\* additions to the empty list and a toggle, or a removal, an addition and a
\* toggle on the loaded list
C29_Witness ==
  /\ calls = MaxCalls
  /\ Len(directories) = 2
  /\ directories[1].path = "/d"
  /\ directories[2].path = "/s"
  /\ ~directories[2].enabled
  /\ savedConfig = directories

\* what a selection action leaves alone
SelectionOnly ==
  UNCHANGED <<fs, savedConfig, registered, directories, photos, loading,
              scanProgress, undoStack, unlistenProgress, tasks>>

\* C30: the selection actions are set operations on selectedIds and change
\* nothing else: a toggle followed by a toggle of the same id gives the set
\* back, selectPhoto gives {id} or, with multi, the set plus id, selectAll
\* the ids of the photos, deselectAll the empty set; deletePhotos empties the
\* selection when trash_files succeeds and leaves it when trash_files fails.
C30_SelectionActionsAreSetOperations ==
  [][/\ \A id \in PhotoIds(photos) :
          /\ ToggleSelection(id) =>
               /\ toggleSelection(selectedIds', id) = selectedIds
               /\ (id \in selectedIds') # (id \in selectedIds)
               /\ SelectionOnly
          /\ SelectPhoto(id, FALSE) => (selectedIds' = {id} /\ SelectionOnly)
          /\ SelectPhoto(id, TRUE) =>
               (selectedIds' = selectedIds \cup {id} /\ SelectionOnly)
     /\ SelectAll =>
          (selectedIds' = {photos[k].id : k \in 1..Len(photos)} /\ SelectionOnly)
     /\ DeselectAll => (selectedIds' = {} /\ SelectionOnly)
     /\ \A i \in Slots :
          /\ Succeeded(i, "trash_files") => selectedIds' = {}
          /\ Failed(i, "trash_files") => selectedIds' = selectedIds]_vars

\* two photos were selected and a trash_files for them has just failed
C30_Witness ==
  /\ response.cmd = "trash_files"
  /\ ~response.ok
  /\ Cardinality(selectedIds) = 2

-----------------------------------------------------------------------------
(***************************************************************************)
(* Claims about the hooks of useSortedPhotos.ts                            *)
(***************************************************************************)

HooksDone == pcHooks = "rendered"

\* every duplicateOf of the photo list is the id of a photo of the list
DuplicateOfExists ==
  \A k \in 1..Len(photos) :
    photos[k].duplicateOf # NoId => photos[k].duplicateOf \in PhotoIds(photos)

\* C14: in every group of useDuplicateGroups, for a photo list whose
\* duplicateOf all refer to photos of the list, the header has the shortest
\* path of the group, and among the members of that length the path that
\* comes first lexicographically.
C14_HeaderIsShortestThenLexicographic ==
  (HooksDone /\ DuplicateOfExists) =>
    \A g \in 1..Len(duplicateGroups) :
      \A k \in 1..Len(duplicateGroups[g].duplicates) :
        LET header == duplicateGroups[g].original.path
            member == duplicateGroups[g].duplicates[k].path
        IN  \/ PathLen(header) < PathLen(member)
            \/ /\ PathLen(header) = PathLen(member)
               /\ localeCompare(header, member) <= 0

\* the spec's invariant on keepers: a photo that a duplicate names as its
\* duplicateOf is not a duplicate itself and has no duplicateOf
KeepersAreNotDuplicates ==
  \A k \in 1..Len(photos) :
    (photos[k].isDuplicate /\ photos[k].duplicateOf # NoId) =>
      \A j \in 1..Len(photos) :
        photos[j].id = photos[k].duplicateOf =>
          ~photos[j].isDuplicate /\ photos[j].duplicateOf = NoId

\* [group.original, ...group.duplicates]
GroupMembers(g) == <<g.original>> \o g.duplicates

\* C15: for a photo list that keeps the invariant on keepers, every group of
\* useDuplicateGroups has at least two members, its members are pairwise
\* distinct photos, and no photo is a member of two groups.
C15_GroupsAreWellFormed ==
  (HooksDone /\ KeepersAreNotDuplicates) =>
    /\ \A g \in 1..Len(duplicateGroups) :
         LET members == GroupMembers(duplicateGroups[g])
         IN  /\ Len(members) >= 2
             /\ \A i, j \in 1..Len(members) :
                  i # j => members[i].id # members[j].id
    /\ \A g, h \in 1..Len(duplicateGroups) :
         g # h => PhotoIds(GroupMembers(duplicateGroups[g]))
                    \cap PhotoIds(GroupMembers(duplicateGroups[h])) = {}

\* two groups were made from a list that keeps the invariant
C15_Witness ==
  /\ HooksDone
  /\ KeepersAreNotDuplicates
  /\ Len(duplicateGroups) = 2

\* the positions of the photos with isDuplicate true and duplicateOf set
DuplicatePositions ==
  {k \in 1..Len(photos) : photos[k].isDuplicate /\ photos[k].duplicateOf # NoId}

\* the positions of the photos that such a photo names as its duplicateOf
OriginalPositions ==
  {k \in 1..Len(photos) :
     \E j \in DuplicatePositions : photos[j].duplicateOf = photos[k].id}

\* sortedPhotos holds the duplicates and their originals, each once
ShowsDuplicatesAndOriginals ==
  /\ Len(sortedPhotos) = Cardinality(DuplicatePositions \cup OriginalPositions)
  /\ SeqOf(sortedPhotos) =
       {photos[k] : k \in DuplicatePositions \cup OriginalPositions}

\* no duplicate is the duplicateOf of another photo of the list
NoDuplicateIsTargetOfAnother ==
  \A k \in DuplicatePositions :
    \A j \in 1..Len(photos) : j # k => photos[j].duplicateOf # photos[k].id

\* no duplicate is the duplicateOf of any photo of the list, itself included
NoDuplicateIsTarget ==
  \A k \in DuplicatePositions :
    \A j \in 1..Len(photos) : photos[j].duplicateOf # photos[k].id

\* both hooks return the empty list while loading
EmptyWhileLoading ==
  loading => sortedPhotos = <<>> /\ duplicateGroups = <<>>

\* C20 as stated: with filterMode 'duplicates' and not loading, for a photo
\* list in which no duplicate is the duplicateOf of another photo,
\* useSortedPhotos returns exactly the duplicates and their originals, each
\* once; while loading both hooks return the empty list.
C20_DuplicatesFilterAsStated ==
  HooksDone =>
    /\ EmptyWhileLoading
    /\ (~loading /\ filterMode = "duplicates" /\ NoDuplicateIsTargetOfAnother)
         => ShowsDuplicatesAndOriginals

\* C20: the same for the photo lists in which no duplicate is the duplicateOf
\* of any photo, itself included.
C20_DuplicatesFilter ==
  HooksDone =>
    /\ EmptyWhileLoading
    /\ (~loading /\ filterMode = "duplicates" /\ NoDuplicateIsTarget)
         => ShowsDuplicatesAndOriginals

\* a list was filtered: two duplicates and their original are shown, a
\* fourth photo is not
C20_Witness ==
  /\ HooksDone
  /\ ~loading
  /\ filterMode = "duplicates"
  /\ NoDuplicateIsTarget
  /\ Len(photos) = 4
  /\ Len(sortedPhotos) = 3
  /\ Cardinality(DuplicatePositions) = 2

\* C28: for a photo list in which every keeper named by a duplicateOf exists
\* and is not a duplicate itself, every photo in the duplicates of a group
\* has isDuplicate true and names the group's originalId as its duplicateOf,
\* and the group's original has no duplicateOf.
C28_GroupsFollowDuplicateOf ==
  (HooksDone /\ DuplicateOfExists /\ KeepersAreNotDuplicates) =>
    \A g \in 1..Len(duplicateGroups) :
      /\ duplicateGroups[g].original.duplicateOf = NoId
      /\ \A k \in 1..Len(duplicateGroups[g].duplicates) :
           /\ duplicateGroups[g].duplicates[k].isDuplicate
           /\ duplicateGroups[g].duplicates[k].duplicateOf
                = duplicateGroups[g].originalId

=============================================================================
